---- MODULE Spec2Model ----
(***************************************************************************)
(* A model of deepmdp-repro's garage_mod package:                          *)
(*   exploration_strategies/epsilon_greedy_strategy.py                     *)
(*       EpsilonGreedyStrategy                                             *)
(*   algos/dqn.py               DQN (train_once, optimize_policy, ...)     *)
(*   env_wrappers/stack_frames.py   StackFrames                            *)
(*                                                                         *)
(* Python floats are IEEE-754 binary floating point numbers, rounded to    *)
(* nearest, ties to even, after every operation.  The model keeps that     *)
(* rule and shrinks the format: a float is an integer count of             *)
(* 2^-FracBits with a significand of Precision bits.                       *)
(***************************************************************************)
EXTENDS Integers, Sequences, FiniteSets, TLC

\* ------------------------------------------------------------ bounds
Precision == 5
FracBits == 7
MaxTimesteps == 4
MaxCalls == 6
MaxObs == 1
MaxItr == 4
MaxStored == 3
MaxPaths == 2
MaxFrames == 3
MaxSteps == 3

\* ------------------------------------------------------------ floats
Pow2(n) == 2 ^ n

\* 1.0
Unit == Pow2(FracBits)

Abs(x) == IF x < 0 THEN 0 - x ELSE x

\* N / D to the nearest integer, ties to the even one (N >= 0, D > 0)
RoundHalfEven(N, D) ==
    LET f == N \div D
        r == N % D
    IN  IF 2 * r < D THEN f
        ELSE IF 2 * r > D THEN f + 1
        ELSE IF f % 2 = 0 THEN f ELSE f + 1

\* the exponent of N / D: the least k with N / (D * 2^k) < 2^Precision
RECURSIVE Exponent(_, _, _)
Exponent(N, D, k) ==
    IF N \div (D * Pow2(k)) < Pow2(Precision) THEN k ELSE Exponent(N, D, k + 1)

\* the float nearest to the rational a / b (b > 0)
RoundQ(a, b) ==
    LET N == Abs(a)
        k == Exponent(N, b, 0)
        m == RoundHalfEven(N, b * Pow2(k))
    IN  IF a < 0 THEN 0 - m * Pow2(k) ELSE m * Pow2(k)

IsFloat(x) == RoundQ(x, 1) = x

\* x + y
FAdd(x, y) == RoundQ(x + y, 1)
\* x - y
FSub(x, y) == RoundQ(x - y, 1)
\* x * y
FMul(x, y) == RoundQ(x * y, Unit)
\* x / n for an int n # 0
FDivInt(x, n) == RoundQ(x, n)
\* n * x for an int n
IntMulFloat(n, x) == RoundQ(n * x, 1)
\* int(x), x >= 0
Trunc(x) == x \div Unit
\* the float a literal p/q is read as
Lit(p, q) == RoundQ(p * Unit, q)

\* ------------------------------------------------------------ values
None == <<>>
Some(x) == <<x>>
Val(o) == o[1]

\* the action space of the environment
Actions == {0, 1}
\* the values of episode_done a caller passes to _decay
DoneVals == {"None", "False", "True"}
Truthy(d) == d = "True"
\* agent_infos of the wrapped policy: the keys of the mapping
InfoMaps == {{}, {"q_vals"}}
\* outcomes of np.random.random(), in [0, 1)
RandomDraws == {0, Unit - 1}

\* constructor arguments
MaxEpsilons == {Lit(1, 1), Lit(3, 4)}
MinEpsilons == {Lit(2, 100), Lit(1, 10), Lit(1, 4)}
DecayRatios == {Lit(1, 2), Lit(1, 1)}
DecayRates == {None, Some(Lit(1, 2)), Some(Lit(9, 10))}

VARIABLES
    es,           \* the EpsilonGreedyStrategy object
    es_args,      \* the arguments es was constructed with
    decay_calls,  \* number of _decay calls made on es so far
    error,        \* the exception the last operation raised, or "none"
    last_call,    \* the operation called last: its argument and what it returned
    cfg,          \* the constructor arguments of DQN
    qf,           \* the parameters of the online Q-function
    target_qf,    \* the parameters of the target Q-function
    itr,          \* the iteration number the caller passes to train_once next
    n_transitions_stored,  \* replay_buffer.n_transitions_stored
    train_log,    \* what the last train_once call did
    opt,          \* what the last optimize_policy call computed
    fs,           \* the StackFrames wrapper: n_frames, do_noops, observation shape
    frames,       \* its deque of frames, oldest first
    stacked,      \* the observation its last reset or step returned
    hist          \* the observations the wrapped environment returned since reset

epsVars == <<es, es_args, decay_calls, error>>
dqnVars == <<cfg, qf, target_qf, itr, n_transitions_stored, train_log, opt>>
frameVars == <<fs, frames, stacked, hist>>
vars == <<es, es_args, decay_calls, error, last_call, cfg, qf, target_qf,
          itr, n_transitions_stored, train_log, opt, fs, frames, stacked, hist>>

\* ------------------------------------------------------------ EpsilonGreedyStrategy
NoStrategy ==
    [status |-> "none", max_epsilon |-> 0, min_epsilon |-> 0, epsilon |-> 0,
     episodical_decay |-> FALSE, decay_rate |-> None, decrement |-> None,
     decay_period |-> None]

\* int(total_timesteps * decay_ratio)
DecayPeriod(total_timesteps, decay_ratio) ==
    Trunc(IntMulFloat(total_timesteps, decay_ratio))

\* __init__ with the decrement computed before the choice of the decay mode
InitBothModes(total_timesteps, max_epsilon, min_epsilon, decay_ratio, episodical_decay, exponential_decay_rate) ==
    LET period == DecayPeriod(total_timesteps, decay_ratio)
    IN  IF period = 0
        THEN [status |-> "raised", max_epsilon |-> 0, min_epsilon |-> 0,
              epsilon |-> 0, episodical_decay |-> FALSE, decay_rate |-> <<>>,
              decrement |-> <<>>, decay_period |-> <<>>]
        ELSE [status |-> "ok", max_epsilon |-> max_epsilon,
              min_epsilon |-> min_epsilon, epsilon |-> max_epsilon,
              episodical_decay |-> episodical_decay,
              decay_rate |-> exponential_decay_rate,
              decrement |-> <<FDivInt(FSub(max_epsilon, min_epsilon), period)>>,
              decay_period |-> <<period>>]

\* __init__; status "raised" when the division by decay_period fails
EpsilonGreedyStrategy(total_timesteps, max_epsilon, min_epsilon, decay_ratio, episodical_decay, exponential_decay_rate) ==
    LET base == [status |-> "ok", max_epsilon |-> max_epsilon,
                 min_epsilon |-> min_epsilon, epsilon |-> max_epsilon,
                 episodical_decay |-> episodical_decay, decay_rate |-> None,
                 decrement |-> None, decay_period |-> None]
        period == DecayPeriod(total_timesteps, decay_ratio)
    IN  IF exponential_decay_rate = None
        THEN IF period = 0
             THEN [NoStrategy EXCEPT !.status = "raised"]
             ELSE [base EXCEPT !.decay_period = Some(period),
                               !.decrement =
                                   Some(FDivInt(FSub(max_epsilon, min_epsilon), period))]
        ELSE [base EXCEPT !.decay_rate = exponential_decay_rate]

\* _decay that decays on every call, episodic or not
DecayGateUngated(s, episode_done) == s.epsilon > s.min_epsilon

\* the condition under which _decay changes epsilon
DecayGate(s, episode_done) ==
    /\ s.epsilon > s.min_epsilon
    /\ (~s.episodical_decay) \/ (s.episodical_decay /\ Truthy(episode_done))

\* if self._decay_rate: None and 0 are both false
RateSet(s) == s.decay_rate # None /\ Val(s.decay_rate) # 0

\* _decay raises TypeError on epsilon -= None
DecayRaises(s, episode_done) ==
    DecayGate(s, episode_done) /\ ~RateSet(s) /\ s.decrement = None

\* _decay
Decay(s, episode_done) ==
    IF DecayGate(s, episode_done)
    THEN IF RateSet(s)
         THEN [s EXCEPT !.epsilon = FMul(s.epsilon, Val(s.decay_rate))]
         ELSE IF s.decrement = None THEN s
         ELSE [s EXCEPT !.epsilon = FSub(s.epsilon, Val(s.decrement))]
    ELSE s

\* a call that returns no actions
Call(op, arg) ==
    [op |-> op, arg |-> arg, actions |-> <<>>, infos |-> {}, policy_infos |-> {}]

Construct ==
    /\ es.status = "none"
    /\ \E total_timesteps \in 1 .. MaxTimesteps, max_epsilon \in MaxEpsilons,
          min_epsilon \in MinEpsilons, decay_ratio \in DecayRatios,
          episodical_decay \in BOOLEAN, exponential_decay_rate \in DecayRates :
          \E s \in {EpsilonGreedyStrategy(total_timesteps, max_epsilon, min_epsilon,
                                         decay_ratio, episodical_decay,
                                         exponential_decay_rate)} :
              /\ es' = s
              /\ es_args' = [total_timesteps |-> total_timesteps,
                             decay_ratio |-> decay_ratio,
                             exponential_decay_rate |-> exponential_decay_rate]
              /\ error' = IF s.status = "raised" THEN "ZeroDivisionError" ELSE "none"
    /\ last_call' = Call("__init__", "None")
    /\ UNCHANGED decay_calls
    /\ UNCHANGED dqnVars
    /\ UNCHANGED frameVars

\* return opt_action, dict()
ActionReturn(opt_action) ==
    [op |-> "get_action", arg |-> "None", actions |-> <<opt_action>>, infos |-> {},
     policy_infos |-> {}]

\* get_action
GetAction ==
    /\ es.status = "ok"
    /\ decay_calls < MaxCalls
    /\ \E opt_action \in Actions, rnd \in RandomDraws, sample \in Actions :
          IF DecayRaises(es, "None")
          THEN /\ error' = "TypeError"
               /\ last_call' = Call("get_action", "None")
               /\ UNCHANGED es
          ELSE /\ es' = Decay(es, "None")
               /\ last_call' = ActionReturn(IF rnd < es'.epsilon THEN sample
                                            ELSE opt_action)
               /\ error' = "none"
    /\ decay_calls' = decay_calls + 1
    /\ UNCHANGED es_args
    /\ UNCHANGED dqnVars
    /\ UNCHANGED frameVars

\* the loop of get_actions from index i on: the strategy and the actions after it
RECURSIVE ActionsLoop(_, _, _, _, _)
ActionsLoop(s, opt_actions, rnds, samples, i) ==
    IF i > Len(opt_actions) THEN [es |-> s, actions |-> opt_actions, raised |-> FALSE]
    ELSE IF DecayRaises(s, "None")
    THEN [es |-> s, actions |-> opt_actions, raised |-> TRUE]
    ELSE LET s2 == Decay(s, "None")
             acts == IF rnds[i] < s2.epsilon
                     THEN [opt_actions EXCEPT ![i] = samples[i]]
                     ELSE opt_actions
         IN  ActionsLoop(s2, acts, rnds, samples, i + 1)

\* get_actions returning a fresh empty mapping, as get_action does
ActionsReturnEmpty(opt_actions, agent_infos) ==
    [op |-> "get_actions", arg |-> "None", actions |-> opt_actions, infos |-> {},
     policy_infos |-> agent_infos]

\* return opt_actions, agent_infos
ActionsReturn(opt_actions, agent_infos) ==
    [op |-> "get_actions", arg |-> "None", actions |-> opt_actions,
     infos |-> agent_infos, policy_infos |-> agent_infos]

\* get_actions
GetActions ==
    /\ es.status = "ok"
    /\ \E n \in 0 .. MaxObs :
          /\ decay_calls + n <= MaxCalls
          /\ \E opt_actions \in [1 .. n -> Actions], agent_infos \in InfoMaps,
                rnds \in [1 .. n -> RandomDraws], samples \in [1 .. n -> Actions] :
                \E r \in {ActionsLoop(es, opt_actions, rnds, samples, 1)} :
                    /\ es' = r.es
                    /\ IF r.raised
                       THEN /\ error' = "TypeError"
                            /\ last_call' = Call("get_actions", "None")
                       ELSE /\ error' = "none"
                            /\ last_call' = ActionsReturn(r.actions, agent_infos)
          /\ decay_calls' = decay_calls + n
    /\ UNCHANGED es_args
    /\ UNCHANGED dqnVars
    /\ UNCHANGED frameVars

\* a direct call of _decay
DecayCall ==
    /\ es.status = "ok"
    /\ decay_calls < MaxCalls
    /\ \E episode_done \in DoneVals :
          /\ es' = Decay(es, episode_done)
          /\ error' = IF DecayRaises(es, episode_done) THEN "TypeError" ELSE "none"
          /\ last_call' = Call("_decay", episode_done)
    /\ decay_calls' = decay_calls + 1
    /\ UNCHANGED es_args
    /\ UNCHANGED dqnVars
    /\ UNCHANGED frameVars

\* ------------------------------------------------------------ DQN
\* the parameter vectors a Q-function can hold
Params == {0, 1}
\* the observations of the environment
Observations == {0, 1}
Rewards == {0, Unit}
\* the terminal flag of a transition, 0.0 or 1.0
Terminals == {0, Unit}
Transitions ==
    [observation : {0}, action : {0}, reward : Rewards, terminal : Terminals,
     next_observation : Observations]
\* replay_buffer.sample(batch_size) of a buffer that holds the transitions stored
Batches(stored, batch_size) == [1 .. batch_size -> stored]

\* the forward pass of a Q-function with parameters p on observation o:
\* one value per action
QNet(p, o) ==
    [a \in Actions |-> ((((p + 1) * (o + 1) + a * (p + o)) % 5) - 2) * (Unit \div 2)]

\* the largest element of a non-empty set of numbers
SetMax(S) == CHOOSE x \in S : \A y \in S : y <= x

\* torch.max(target_qvals, dim=0): the maximum over the batch, per action
ColumnMax(qvals) ==
    [i \in 1 .. Cardinality(Actions) |->
        SetMax({qvals[j][i - 1] : j \in 1 .. Len(qvals)})]

\* torch.max(target_qvals, dim=1): the maximum over the actions, per sample
RowMax(qvals) ==
    [i \in 1 .. Len(qvals) |-> SetMax({qvals[i][a] : a \in Actions})]

\* target = rewards + (1.0 - dones) * self.discount * target_qvals
BootstrapTarget(batch, discount, target_qvals) ==
    [i \in 1 .. Len(batch) |->
        FAdd(batch[i].reward,
             FMul(FMul(FSub(Unit, batch[i].terminal), discount), target_qvals[i]))]

\* the values auxiliary_objectives can hold: None, the default of __init__,
\* or a list of objectives, each named by its kind
AuxiliaryObjectiveLists ==
    {None, Some(<<>>), Some(<<"reward">>), Some(<<"transition">>),
     Some(<<"reward", "transition">>)}
\* the losses compute_loss of an objective can return
AuxLosses == {0, Unit}
\* the penalties compute_gradient_penalty can return (alpha is random)
Penalties == {0, Unit}
NoDraw == [losses |-> <<>>, penalties |-> <<>>]

\* if self.auxiliary_objectives: neither None nor an empty list
AuxConfigured(aux) == aux # None /\ Len(Val(aux)) > 0

\* what the objectives and the gradient penalties of one optimize_policy call
\* can return: one loss per objective, one penalty for the encoder, one for
\* the Q-head and one per objective's head
AuxDraws(aux) ==
    IF aux = None THEN {NoDraw}
    ELSE [losses : [1 .. Len(Val(aux)) -> AuxLosses],
          penalties : IF AuxConfigured(aux)
                      THEN [1 .. (2 + Len(Val(aux))) -> Penalties]
                      ELSE {<<>>}]

\* torch.split(samples, int(batch_size/2)) unpacked into two halves
SplitRaises(batch_size) ==
    IF batch_size \div 2 = 0 THEN "RuntimeError"
    ELSE IF batch_size % 2 = 1 THEN "ValueError"
    ELSE "none"

\* acc + seq[i] + ... + seq[Len(seq)], added one after the other
RECURSIVE SumFrom(_, _, _)
SumFrom(seq, i, acc) ==
    IF i > Len(seq) THEN acc ELSE SumFrom(seq, i + 1, FAdd(acc, seq[i]))

\* the smooth L1 loss of one element
SmoothL1(x, y) ==
    LET d == Abs(FSub(x, y))
    IN  IF d < Unit THEN FMul(FMul(Lit(1, 2), d), d) ELSE FSub(d, Lit(1, 2))

\* torch.nn.SmoothL1Loss()(input, target): the mean over the batch
SmoothL1Loss(input, target) ==
    FDivInt(SumFrom([i \in 1 .. Len(input) |-> SmoothL1(input[i], target[i])], 1, 0),
            Len(input))

\* optimize_policy on the sampled batch; stepped are the parameters the
\* optimizer step leaves in qf, draw what the auxiliary objectives and the
\* gradient penalties return
OptimizePolicy(q, tq, batch, discount, stepped, aux, penalty_lambda, draw) ==
    LET out == [i \in 1 .. Len(batch) |-> QNet(tq, batch[i].next_observation)]
        target_qvals == RowMax(out)
        target == BootstrapTarget(batch, discount, target_qvals)
        q_selected == [i \in 1 .. Len(batch) |->
                          QNet(q, batch[i].observation)[batch[i].action]]
        raised == IF aux = None THEN "TypeError"
                  ELSE IF AuxConfigured(aux) THEN SplitRaises(Len(batch))
                  ELSE "none"
        aux_loss == SumFrom(draw.losses, 1, 0)
        gradient_penalty == SumFrom(draw.penalties, 1, 0)
        qval_loss == SmoothL1Loss(q_selected, target)
        loss == FAdd(IF AuxConfigured(aux)
                     THEN FAdd(aux_loss, FMul(penalty_lambda, gradient_penalty))
                     ELSE aux_loss,
                     qval_loss)
    IN  IF raised # "none"
        THEN [qf |-> q, target_qf |-> tq,
              opt |-> [called |-> TRUE, batch |-> batch, qf |-> q, target_qf |-> tq,
                       discount |-> discount, target |-> target,
                       raised |-> raised,
                       aux_losses |-> IF aux = None THEN 0 ELSE Len(Val(aux)),
                       penalised |-> FALSE, steps |-> 0, loss |-> 0,
                       returned |-> None]]
        ELSE [qf |-> stepped, target_qf |-> tq,
              opt |-> [called |-> TRUE, batch |-> batch, qf |-> q, target_qf |-> tq,
                       discount |-> discount, target |-> target,
                       raised |-> "none", aux_losses |-> Len(Val(aux)),
                       penalised |-> AuxConfigured(aux), steps |-> 1,
                       loss |-> loss, returned |-> Some(qval_loss)]]

\* update_target that copies nothing
UpdateTargetKeep(q, tq) == tq

\* update_target: the parameters target_qf holds afterwards
UpdateTarget(q, tq) == q

\* _buffer_prefilled with a strict comparison
BufferPrefilledStrict(stored, min_buffer_size) == stored > min_buffer_size

\* _buffer_prefilled
BufferPrefilled(stored, min_buffer_size) == stored >= min_buffer_size

\* process_samples: complete, the last done flag of every path
ProcessSamples(paths) == [i \in 1 .. Len(paths) |-> paths[i]]

\* the number of true flags of complete from index i on
RECURSIVE CountComplete(_, _)
CountComplete(complete, i) ==
    IF i > Len(complete) THEN 0
    ELSE (IF complete[i] THEN 1 ELSE 0) + CountComplete(complete, i + 1)

\* the decay loop of train_once from path i on: the strategy afterwards and
\* the number of _decay(episode_done=True) calls made
RECURSIVE DecayEpisodes(_, _, _, _)
DecayEpisodes(s, complete, i, calls) ==
    IF i > Len(complete) THEN [es |-> s, calls |-> calls]
    ELSE IF complete[i]
    THEN DecayEpisodes(Decay(s, "True"), complete, i + 1, calls + 1)
    ELSE DecayEpisodes(s, complete, i + 1, calls)

\* the training loop of train_once from step i on; an error raised by
\* optimize_policy ends it
RECURSIVE TrainSteps(_, _, _, _, _, _)
TrainSteps(st, batches, steps, draws, c, i) ==
    IF i > Len(batches) THEN st
    ELSE LET r == OptimizePolicy(st.qf, st.target_qf, batches[i], c.discount, steps[i],
                                 c.auxiliary_objectives, c.penalty_lambda, draws[i])
             next == [qf |-> r.qf, target_qf |-> r.target_qf, opt |-> r.opt,
                      raised |-> r.opt.raised, optimized |-> st.optimized + r.opt.steps]
         IN  IF r.opt.raised # "none" THEN next
             ELSE TrainSteps(next, batches, steps, draws, c, i + 1)

PathLists == UNION {[1 .. n -> BOOLEAN] : n \in 0 .. MaxPaths}

\* train_once(itr, paths); the caller then moves on to the next iteration
TrainOnce ==
    /\ es.status = "ok"
    /\ itr < MaxItr
    /\ \E paths \in PathLists :
          \E complete \in {ProcessSamples(paths)},
             prefilled \in {BufferPrefilled(n_transitions_stored, cfg.min_buffer_size)} :
          \E decayed \in {IF es.episodical_decay
                          THEN DecayEpisodes(es, complete, 1, 0)
                          ELSE [es |-> es, calls |-> 0]},
             n \in {IF prefilled THEN cfg.n_train_steps ELSE 0} :
              /\ decay_calls + decayed.calls <= MaxCalls
              /\ \E batches \in [1 .. n -> Batches(cfg.replay_buffer,
                                                      cfg.buffer_batch_size)],
                    steps \in [1 .. n -> Params],
                    draws \in [1 .. n -> AuxDraws(cfg.auxiliary_objectives)] :
                    \E trained \in {TrainSteps([qf |-> qf, target_qf |-> target_qf,
                                                opt |-> opt, raised |-> "none",
                                                optimized |-> 0],
                                               batches, steps, draws, cfg, 1)} :
                    \E sync \in {trained.raised = "none" /\ prefilled
                                 /\ itr % cfg.target_network_update_freq = 0} :
                        /\ es' = decayed.es
                        /\ error' = trained.raised
                        /\ itr' = IF trained.raised = "none" THEN itr + 1 ELSE itr
                        /\ decay_calls' = decay_calls + decayed.calls
                        /\ qf' = trained.qf
                        /\ target_qf' = IF sync
                                        THEN UpdateTarget(trained.qf, trained.target_qf)
                                        ELSE trained.target_qf
                        /\ opt' = trained.opt
                        /\ train_log' = [called |-> TRUE, itr |-> itr,
                                         complete |-> CountComplete(complete, 1),
                                         stored |-> n_transitions_stored,
                                         decays |-> decayed.calls,
                                         optimized |-> trained.optimized,
                                         raised |-> trained.raised,
                                         synced |-> sync]
    /\ last_call' = Call("train_once", "None")
    /\ UNCHANGED <<es_args, cfg, n_transitions_stored>>
    /\ UNCHANGED frameVars

\* a direct call of optimize_policy
OptimizePolicyCall ==
    /\ \E batch \in Batches(cfg.replay_buffer, cfg.buffer_batch_size),
          stepped \in Params, draw \in AuxDraws(cfg.auxiliary_objectives) :
          \E r \in {OptimizePolicy(qf, target_qf, batch, cfg.discount, stepped,
                                   cfg.auxiliary_objectives, cfg.penalty_lambda, draw)} :
              /\ qf' = r.qf
              /\ target_qf' = r.target_qf
              /\ opt' = r.opt
              /\ error' = r.opt.raised
    /\ last_call' = Call("optimize_policy", "None")
    /\ UNCHANGED <<es, es_args, decay_calls>>
    /\ UNCHANGED <<cfg, itr, n_transitions_stored, train_log>>
    /\ UNCHANGED frameVars

\* the sampler stores transitions in the replay buffer between iterations
AddTransitions ==
    /\ n_transitions_stored < MaxStored
    /\ \E k \in 1 .. (MaxStored - n_transitions_stored) :
          n_transitions_stored' = n_transitions_stored + k
    /\ last_call' = Call("add_transitions", "None")
    /\ UNCHANGED epsVars
    /\ UNCHANGED <<cfg, qf, target_qf, itr, train_log, opt>>
    /\ UNCHANGED frameVars

\* ------------------------------------------------------------ StackFrames
Pixels == {0, 1}
\* observation_space.shape of the wrapped environment
Shapes == {<<1>>, <<2>>, <<1, 2>>}
\* the observations of a Box of shape sh
ObsOf(sh) ==
    IF Len(sh) = 1 THEN [1 .. sh[1] -> Pixels]
    ELSE [1 .. sh[1] -> [1 .. sh[2] -> Pixels]]

\* a list append, which drops nothing
ListAppend(d, x, maxlen) == Append(d, x)

\* deque(maxlen).append(x)
DequeAppend(d, x, maxlen) ==
    IF Len(d) = maxlen THEN Append(Tail(d), x) ELSE Append(d, x)

\* ndarray.flatten() of an array of shape (rows, cols), row by row
Flatten(m, rows, cols) ==
    [k \in 1 .. rows * cols |-> m[((k - 1) \div cols) + 1][((k - 1) % cols) + 1]]

\* np.concatenate of 1-D frames
ConcatFrames(fr, sh) ==
    [k \in 1 .. Len(fr) * sh[1] |-> fr[((k - 1) \div sh[1]) + 1][((k - 1) % sh[1]) + 1]]

\* _stack_frames stacking along the first axis: frame after frame
StackedFramesAxis0(fr, sh) ==
    IF Len(sh) = 2
    THEN [i \in 1 .. Len(fr) |-> fr[i]]
    ELSE ConcatFrames(fr, sh)

\* _stack_frames: np.stack along the new last axis, flattened unless 2-D
StackedFrames(fr, sh) ==
    IF Len(sh) = 2
    THEN [r \in 1 .. sh[1] |-> [c \in 1 .. sh[2] |-> [i \in 1 .. Len(fr) |-> fr[i][r][c]]]]
    ELSE Flatten([j \in 1 .. sh[1] |-> [i \in 1 .. Len(fr) |-> fr[i][j]]],
                 sh[1], Len(fr))

\* appends the observations obs[i..] to the deque
RECURSIVE AppendAll(_, _, _, _)
AppendAll(d, obs, i, maxlen) ==
    IF i > Len(obs) THEN d
    ELSE AppendAll(DequeAppend(d, obs[i], maxlen), obs, i + 1, maxlen)

\* reset
Reset ==
    /\ \E observation \in ObsOf(fs.shape),
          noops \in (IF fs.do_noops THEN [1 .. (fs.n_frames - 1) -> ObsOf(fs.shape)]
                     ELSE {<<>>}) :
          \E filled \in {IF fs.do_noops
                         THEN AppendAll(DequeAppend(<<>>, observation, fs.n_frames),
                                        noops, 1, fs.n_frames)
                         ELSE AppendAll(<<>>, [i \in 1 .. fs.n_frames |-> observation],
                                        1, fs.n_frames)} :
              /\ frames' = filled
              /\ stacked' = StackedFrames(filled, fs.shape)
              /\ hist' = [op |-> "reset", was_reset |-> TRUE, first |-> <<observation>>,
                          later |-> noops]
    /\ UNCHANGED fs
    /\ UNCHANGED <<epsVars, last_call, dqnVars>>

\* step
Step ==
    /\ Len(hist.later) < MaxSteps + (IF fs.do_noops THEN fs.n_frames - 1 ELSE 0)
    /\ \E new_observation \in ObsOf(fs.shape) :
          \E appended \in {DequeAppend(frames, new_observation, fs.n_frames)} :
              /\ frames' = appended
              /\ stacked' = StackedFrames(appended, fs.shape)
              /\ hist' = [hist EXCEPT !.op = "step",
                                      !.later = Append(@, new_observation)]
    /\ UNCHANGED fs
    /\ UNCHANGED <<epsVars, last_call, dqnVars>>

\* ------------------------------------------------------------ specifications
NoArgs == [total_timesteps |-> 0, decay_ratio |-> 0, exponential_decay_rate |-> None]
NoCall == Call("none", "None")
NoTrain == [called |-> FALSE, itr |-> 0, complete |-> 0, stored |-> 0, decays |-> 0,
            optimized |-> 0, raised |-> "none", synced |-> FALSE]
NoOpt == [called |-> FALSE, batch |-> <<>>, qf |-> 0, target_qf |-> 0, discount |-> 0,
          target |-> <<>>, raised |-> "none", aux_losses |-> 0, penalised |-> FALSE,
          steps |-> 0, loss |-> 0, returned |-> None]
Discounts == {Lit(9, 10), Lit(1, 2)}
OneTransition ==
    {[observation |-> 0, action |-> 0, reward |-> Unit, terminal |-> 0,
      next_observation |-> 0]}

\* DQN.__init__: target_qf = qf.clone()
Clone(q) == q

\* the state of a DQN just constructed with arguments c around Q-function q
\* and a replay buffer with stored transitions
InitDQNWith(c, q, stored) ==
    /\ cfg = c
    /\ qf = q
    /\ target_qf = Clone(q)
    /\ itr = 0
    /\ n_transitions_stored = stored
    /\ train_log = NoTrain
    /\ opt = NoOpt

NoHist == [op |-> "none", was_reset |-> FALSE, first |-> <<>>, later |-> <<>>]

\* a StackFrames wrapper just constructed
InitFramesWith(n_frames, do_noops, shape) ==
    /\ fs = [n_frames |-> n_frames, do_noops |-> do_noops, shape |-> shape]
    /\ frames = <<>>
    /\ stacked = <<>>
    /\ hist = NoHist

\* no strategy constructed yet
InitEps ==
    /\ es = NoStrategy
    /\ es_args = NoArgs
    /\ decay_calls = 0
    /\ error = "none"
    /\ InitFramesWith(1, FALSE, <<1>>)
    /\ last_call = NoCall
    /\ InitDQNWith([min_buffer_size |-> 1, target_network_update_freq |-> 1,
                    n_train_steps |-> 1, buffer_batch_size |-> 1,
                    discount |-> Lit(9, 10), replay_buffer |-> OneTransition,
                    auxiliary_objectives |-> Some(<<>>), penalty_lambda |-> Lit(1, 100)], 0, 0)

NextEps == Construct \/ GetAction \/ GetActions \/ DecayCall

SpecEps == InitEps /\ [][NextEps]_vars

\* a DQN constructed around a strategy of either decay mode, gated or not
InitEpisodic ==
    /\ \E total_timesteps \in {1, 2, 3}, episodical_decay \in BOOLEAN,
          exponential_decay_rate \in {None, Some(Lit(1, 2))} :
          /\ es = EpsilonGreedyStrategy(total_timesteps, Lit(1, 1), Lit(1, 4), Lit(1, 1),
                                        episodical_decay, exponential_decay_rate)
          /\ es_args = [total_timesteps |-> total_timesteps, decay_ratio |-> Lit(1, 1),
                        exponential_decay_rate |-> exponential_decay_rate]
    /\ decay_calls = 0
    /\ error = "none"
    /\ InitFramesWith(1, FALSE, <<1>>)
    /\ last_call = NoCall
    /\ InitDQNWith([min_buffer_size |-> 1, target_network_update_freq |-> 1,
                    n_train_steps |-> 1, buffer_batch_size |-> 1,
                    discount |-> Lit(9, 10), replay_buffer |-> OneTransition,
                    auxiliary_objectives |-> Some(<<>>), penalty_lambda |-> Lit(1, 100)], 0, 0)

NextEpisodic == TrainOnce \/ GetAction \/ GetActions \/ DecayCall

SpecEpisodic == InitEpisodic /\ [][NextEpisodic]_vars

\* a DQN constructed around an ungated strategy, without auxiliary objectives
\* (None, the default) or with an empty list of them, its replay buffer empty
InitTrain ==
    /\ es = EpsilonGreedyStrategy(2, Lit(1, 1), Lit(1, 4), Lit(1, 1), FALSE, None)
    /\ es_args = [total_timesteps |-> 2, decay_ratio |-> Lit(1, 1),
                  exponential_decay_rate |-> None]
    /\ decay_calls = 0
    /\ error = "none"
    /\ InitFramesWith(1, FALSE, <<1>>)
    /\ last_call = NoCall
    /\ \E min_buffer_size \in {1, 2}, target_network_update_freq \in {1, 2},
          n_train_steps \in {1, 2}, q \in Params,
          auxiliary_objectives \in {None, Some(<<>>)} :
          InitDQNWith([min_buffer_size |-> min_buffer_size,
                       target_network_update_freq |-> target_network_update_freq,
                       n_train_steps |-> n_train_steps, buffer_batch_size |-> 1,
                       discount |-> Lit(9, 10), replay_buffer |-> OneTransition,
                       auxiliary_objectives |-> auxiliary_objectives,
                       penalty_lambda |-> Lit(1, 100)],
                      q, 0)

NextTrain == TrainOnce \/ AddTransitions \/ OptimizePolicyCall

SpecTrain == InitTrain /\ [][NextTrain]_vars

\* a DQN whose optimize_policy is called on batches of two
InitOpt ==
    /\ es = NoStrategy
    /\ es_args = NoArgs
    /\ decay_calls = 0
    /\ error = "none"
    /\ InitFramesWith(1, FALSE, <<1>>)
    /\ last_call = NoCall
    /\ \E discount \in Discounts, q \in Params :
          InitDQNWith([min_buffer_size |-> 1, target_network_update_freq |-> 1,
                       n_train_steps |-> 1, buffer_batch_size |-> 2,
                       discount |-> discount, replay_buffer |-> Transitions,
                    auxiliary_objectives |-> Some(<<>>), penalty_lambda |-> Lit(1, 100)],
                      q, MaxStored)

NextOpt == OptimizePolicyCall

SpecOpt == InitOpt /\ [][NextOpt]_vars

\* the transitions of the replay buffer of a DQN with auxiliary objectives
AuxTransitions ==
    [observation : Observations, action : {1}, reward : {Unit}, terminal : {0},
     next_observation : {1}]

\* a DQN constructed with any value of auxiliary_objectives, the default
\* None included, around a prefilled replay buffer
InitAux ==
    /\ es = EpsilonGreedyStrategy(2, Lit(1, 1), Lit(1, 4), Lit(1, 1), FALSE, None)
    /\ es_args = [total_timesteps |-> 2, decay_ratio |-> Lit(1, 1),
                  exponential_decay_rate |-> None]
    /\ decay_calls = 0
    /\ error = "none"
    /\ InitFramesWith(1, FALSE, <<1>>)
    /\ last_call = NoCall
    /\ \E auxiliary_objectives \in AuxiliaryObjectiveLists,
          buffer_batch_size \in {1, 2}, q \in Params :
          InitDQNWith([min_buffer_size |-> 1, target_network_update_freq |-> 1,
                       n_train_steps |-> 1, buffer_batch_size |-> buffer_batch_size,
                       discount |-> Lit(9, 10), replay_buffer |-> AuxTransitions,
                       auxiliary_objectives |-> auxiliary_objectives,
                       penalty_lambda |-> Lit(1, 100)],
                      q, MaxStored)

NextAux == OptimizePolicyCall

SpecAux == InitAux /\ [][NextAux]_vars

\* a wrapper around an environment of any of the shapes
InitFrames ==
    /\ es = NoStrategy
    /\ es_args = NoArgs
    /\ decay_calls = 0
    /\ error = "none"
    /\ last_call = NoCall
    /\ InitDQNWith([min_buffer_size |-> 1, target_network_update_freq |-> 1,
                    n_train_steps |-> 1, buffer_batch_size |-> 1,
                    discount |-> Lit(9, 10), replay_buffer |-> OneTransition,
                    auxiliary_objectives |-> Some(<<>>), penalty_lambda |-> Lit(1, 100)], 0, 0)
    /\ \E n_frames \in 1 .. MaxFrames, do_noops \in BOOLEAN, shape \in Shapes :
          InitFramesWith(n_frames, do_noops, shape)

NextFrames == Reset \/ Step

SpecFrames == InitFrames /\ [][NextFrames]_vars

\* ------------------------------------------------------------ properties
Constructed == es.status = "ok"
LinearMode == Constructed /\ es.decay_rate = None
ExponentialMode == Constructed /\ es.decay_rate # None

\* C1: whatever the configuration and the calls made, epsilon never increases
\* from one call to the next and min_epsilon <= epsilon <= max_epsilon.
C1_EpsilonMonotoneBounded ==
    /\ [](Constructed =>
             es.min_epsilon <= es.epsilon /\ es.epsilon <= es.max_epsilon)
    /\ [][Constructed => es'.epsilon <= es.epsilon]_vars

\* C3: linear decay without episodic gating: once decay_period decay calls
\* were made epsilon equals min_epsilon, and stays there.
C3_LinearReachesMin ==
    (LinearMode /\ ~es.episodical_decay /\ decay_calls >= Val(es.decay_period))
        => es.epsilon = es.min_epsilon

\* C9 as claimed: get_action and get_actions both return an empty info mapping.
C9_BothReturnEmptyInfo == last_call.op # "none" => last_call.infos = {}

\* C9 as amended: get_action returns an empty info mapping, get_actions
\* returns the info mapping of the wrapped policy as it is.
C9_InfoOfEachCall ==
    /\ last_call.op = "get_action" => last_call.infos = {}
    /\ last_call.op = "get_actions" => last_call.infos = last_call.policy_infos

C9_Witness ==
    /\ last_call.op = "get_actions"
    /\ last_call.actions # <<>>
    /\ last_call.policy_infos # {}

\* the linear parameters of the constructor describe a decay
LinearConfigured == DecayPeriod(es_args.total_timesteps, es_args.decay_ratio) >= 1
\* the exponential parameter of the constructor describes a decay
ExponentialConfigured == es_args.exponential_decay_rate # None
ExactlyOneMode == (es.decay_rate # None) # (es.decrement # None)

\* C10 as claimed: construction fails exactly when both decay modes or none
\* of them are configured, and a created strategy has one decay mode.
C10_FailsOnBothOrNeither ==
    es.status # "none" =>
        /\ es.status = "raised" <=> (LinearConfigured <=> ExponentialConfigured)
        /\ Constructed => ExactlyOneMode

\* C10 as amended: construction fails only when exponential_decay_rate is None
\* and decay_period is 0; a rate that is not None selects exponential decay
\* whatever the linear parameters are, and a created strategy has exactly one
\* of _decay_rate and _decrement set.
C10_ExponentialTakesPriority ==
    es.status # "none" =>
        /\ es.status = "raised" <=>
               (es_args.exponential_decay_rate = None /\ ~LinearConfigured)
        /\ Constructed => ExactlyOneMode
        /\ Constructed =>
               (es.decay_rate # None <=> es_args.exponential_decay_rate # None)
        /\ Constructed => es.decay_rate = es_args.exponential_decay_rate

C10_Witness ==
    /\ Constructed
    /\ LinearConfigured
    /\ ExponentialConfigured
    /\ es.decrement = None

\* C2: with episodical_decay set, epsilon changes only in a _decay call made
\* with episode_done=True, directly or by train_once, and train_once makes
\* one such call per completed path; get_action, get_actions and _decay
\* without episode_done leave epsilon as it is.
C2_EpisodicGate ==
    /\ [][(Constructed /\ es.episodical_decay /\ es'.epsilon # es.epsilon) =>
              \/ last_call'.op = "_decay" /\ last_call'.arg = "True"
              \/ last_call'.op = "train_once" /\ train_log'.complete > 0]_vars
    /\ []((train_log.called /\ es.episodical_decay) =>
              train_log.decays = train_log.complete)

C2_Witness ==
    /\ Constructed
    /\ es.episodical_decay
    /\ train_log.called
    /\ train_log.complete = 2
    /\ es.epsilon < es.max_epsilon
    /\ last_call.op = "get_actions"
    /\ last_call.actions # <<>>

\* the step is a train_once call that called update_target
SyncStep == itr' # itr /\ train_log'.synced

\* C4: target_qf starts as a copy of qf, holds the parameters of qf right
\* after update_target, and no other step, optimize_policy included, changes it.
C4_TargetFollowsSync ==
    /\ target_qf = qf
    /\ [][/\ SyncStep => target_qf' = qf'
          /\ ~SyncStep => target_qf' = target_qf]_vars

C4_Witness ==
    /\ train_log.called
    /\ train_log.optimized > 0
    /\ ~train_log.synced
    /\ train_log.itr > 0
    /\ qf # target_qf

TargetRow(i) == QNet(opt.target_qf, opt.batch[i].next_observation)
ConstantRow(i) == \A a, b \in Actions : TargetRow(i)[a] = TargetRow(i)[b]

\* C6: for every sample the target is reward + (1 - terminal) * discount *
\* max_a target_qf(next_observation)[a]: the reward alone when terminal = 1,
\* and reward + discount * v when terminal = 0 and target_qf returns v for
\* every action.
C6_BootstrapTarget ==
    opt.called =>
        \A i \in 1 .. Len(opt.batch) :
            /\ opt.target[i] =
                   FAdd(opt.batch[i].reward,
                        FMul(FMul(FSub(Unit, opt.batch[i].terminal), opt.discount),
                             SetMax({TargetRow(i)[a] : a \in Actions})))
            /\ opt.batch[i].terminal = Unit => opt.target[i] = opt.batch[i].reward
            /\ (opt.batch[i].terminal = 0 /\ ConstantRow(i)) =>
                   opt.target[i] =
                       FAdd(opt.batch[i].reward, FMul(opt.discount, TargetRow(i)[0]))

C6_Witness ==
    /\ opt.called
    /\ opt.batch[1].terminal = Unit
    /\ SetMax({TargetRow(1)[a] : a \in Actions}) > 0
    /\ opt.batch[2].terminal = 0
    /\ ConstantRow(2)
    /\ TargetRow(2)[0] # 0
    /\ opt.target[1] # opt.target[2]

\* the observations received since reset, the first one n_frames times
RECURSIVE Repeat(_, _)
Repeat(x, n) == IF n = 0 THEN <<>> ELSE <<x>> \o Repeat(x, n - 1)
Received == Repeat(hist.first[1], fs.n_frames) \o hist.later
LastN(sq, n) == SubSeq(sq, Len(sq) - n + 1, Len(sq))

\* C7: without no-op prefill, after reset() and any number of step() calls
\* the buffer holds exactly n_frames frames, the last n_frames of the initial
\* observation repeated n_frames times followed by the step observations.
C7_FramesAreLastReceived ==
    (hist.was_reset /\ ~fs.do_noops) =>
        /\ Len(frames) = fs.n_frames
        /\ frames = LastN(Received, fs.n_frames)
        /\ hist.op = "reset" => \A i \in 1 .. fs.n_frames : frames[i] = hist.first[1]

C7_Witness ==
    /\ hist.was_reset
    /\ ~fs.do_noops
    /\ fs.n_frames = 3
    /\ Len(hist.later) = 2
    /\ hist.later[1] # hist.first[1]
    /\ hist.later[2] # hist.later[1]
    /\ hist.later[2] # hist.first[1]

OneDimensional == Len(fs.shape) = 1

\* C8 as claimed: for 1-D observations of length L the returned vector has
\* length L * n_frames and is the concatenation of the frames, oldest first.
C8_Concatenated ==
    (hist.was_reset /\ OneDimensional) =>
        /\ Len(stacked) = fs.shape[1] * fs.n_frames
        /\ \A i \in 1 .. fs.n_frames : \A j \in 1 .. fs.shape[1] :
              stacked[(i - 1) * fs.shape[1] + j] = frames[i][j]

\* C8 as amended: the returned vector has length L * n_frames and interleaves
\* the frames: element j of the i-th oldest frame is at position
\* j * n_frames + i (counting from 0).
C8_Interleaved ==
    (hist.was_reset /\ OneDimensional) =>
        /\ Len(stacked) = fs.shape[1] * fs.n_frames
        /\ \A i \in 1 .. fs.n_frames : \A j \in 1 .. fs.shape[1] :
              stacked[(j - 1) * fs.n_frames + i] = frames[i][j]

C8_Witness ==
    /\ hist.was_reset
    /\ hist.op = "step"
    /\ OneDimensional
    /\ fs.shape[1] = 2
    /\ fs.n_frames = 2
    /\ frames[1] # frames[2]
    /\ frames[1][1] # frames[1][2]
    /\ stacked # ConcatFrames(frames, fs.shape)

\* the Q-loss of the last optimize_policy call: the smooth L1 loss between the
\* Q-values qf gave the actions taken and the targets
QLoss ==
    SmoothL1Loss([i \in 1 .. Len(opt.batch) |->
                     QNet(opt.qf, opt.batch[i].observation)[opt.batch[i].action]],
                 opt.target)

\* C11: with no auxiliary objectives configured, the default of the
\* constructor included, optimize_policy raises no error, computes no
\* auxiliary loss and no gradient penalty, steps the optimizer exactly once
\* and returns the Q-loss.
C11_PlainDQNOneUpdate ==
    (opt.called /\ ~AuxConfigured(cfg.auxiliary_objectives)) =>
        /\ opt.raised = "none"
        /\ opt.aux_losses = 0
        /\ ~opt.penalised
        /\ opt.steps = 1
        /\ opt.returned = Some(QLoss)

====
